---- MODULE Spec2Model ----
(***************************************************************************)
(* Gate library, bit utilities and chip row layout of halo2-native-ecc     *)
(* (Bandersnatch twisted-Edwards gates over a two-lane advice table).      *)
(*                                                                         *)
(* The base field Fp is a 255-bit prime field in the program.  The model   *)
(* evaluates the same polynomials over a small prime field that keeps the  *)
(* features the gates depend on: a = -5 is a non-residue, d is a           *)
(* non-residue, and the curve group is Z2 x Z2 x Zq with q an odd prime.   *)
(***************************************************************************)
EXTENDS Integers, Sequences, FiniteSets, TLC

VARIABLES
    gate,       \* gate library: name of the gate template under evaluation
    meta,       \* gate library: the advice cells the gate queries, [a |-> <<..>>, b |-> <<..>>]
    poly,       \* gate library: value of the gate expression, or NotEvaluated
    arg,        \* util: the integer handed to decompose_u128
    ret,        \* util: the vector it returned, empty before the call
    region,     \* chip: the witness table (advice cells, enabled gates, copy constraints)
    offset,     \* chip: the caller's row cursor, passed to every chip operation
    held,       \* chip: the assigned cells and points the caller holds
    last        \* chip: the operation performed last and what it was given

vars == <<gate, meta, poly, arg, ret, region, offset, held, last>>

----------------------------------------------------------------------------
(* Field arithmetic of Fp (halo2curves::bandersnatch::Fp), scaled down.    *)

\* modulus of the base field; a small prime standing in for the 255-bit one
FieldModulus == 13

Fp == 0 .. (FieldModulus - 1)

FAdd(x, y) == (x + y) % FieldModulus

FSub(x, y) == (x - y) % FieldModulus

FMul(x, y) == (x * y) % FieldModulus

FNeg(x) == (0 - x) % FieldModulus

square(x) == FMul(x, x)

\* F::from(n): an integer literal reduced into the field
from(n) == n % FieldModulus

\* F::ONE
one == from(1)

\* constant_a = F::from(5).neg()
constant_a == FNeg(from(5))

\* constant_d = BandersnatchTE::d(); stand-in non-residue of the small field
constant_d == 5

----------------------------------------------------------------------------
(* meta.query_advice(column, Rotation(r)): the cell of a column r rows     *)
(* below the row on which the gate is evaluated.                           *)

query_advice(m, column, rotation) == m[column][rotation + 1]

\* mutant: the result cells are read from the current row instead of row 3
conditional_ec_add_gate_cur(m) ==
    LET a0 == query_advice(m, "a", 0)
        b0 == query_advice(m, "b", 0)
        a1 == query_advice(m, "a", 1)
        b1 == query_advice(m, "b", 1)
        condition == query_advice(m, "a", 2)
        a2 == query_advice(m, "a", 0)
        b2 == query_advice(m, "b", 0)
        dxxyy == FMul(FMul(FMul(FMul(constant_d, a0), a1), b0), b1)
        divider_1 == FAdd(one, dxxyy)
        divider_2 == FSub(one, dxxyy)
        dividend_1 == FAdd(FMul(a0, b1), FMul(b0, a1))
        dividend_2 == FSub(FMul(b0, b1), FMul(FMul(constant_a, a0), a1))
        x3_comp == FSub(FMul(a2, divider_1), dividend_1)
        y3_comp == FSub(FMul(b2, divider_2), dividend_2)
    IN  FAdd(FAdd(FAdd(FMul(condition, x3_comp),
                       FMul(condition, y3_comp)),
                  FMul(FSub(one, condition), FSub(a2, a0))),
             FMul(FSub(one, condition), FSub(b2, b0)))

\* mutant: the a-term of the y-dividend enters with the wrong sign
conditional_ec_add_gate_sign(m) ==
    LET a0 == query_advice(m, "a", 0)
        b0 == query_advice(m, "b", 0)
        a1 == query_advice(m, "a", 1)
        b1 == query_advice(m, "b", 1)
        condition == query_advice(m, "a", 2)
        a2 == query_advice(m, "a", 3)
        b2 == query_advice(m, "b", 3)
        dxxyy == FMul(FMul(FMul(FMul(constant_d, a0), a1), b0), b1)
        divider_1 == FAdd(one, dxxyy)
        divider_2 == FSub(one, dxxyy)
        dividend_1 == FAdd(FMul(a0, b1), FMul(b0, a1))
        dividend_2 == FAdd(FMul(b0, b1), FMul(FMul(constant_a, a0), a1))
        x3_comp == FSub(FMul(a2, divider_1), dividend_1)
        y3_comp == FSub(FMul(b2, divider_2), dividend_2)
    IN  FAdd(FAdd(FAdd(FMul(condition, x3_comp),
                       FMul(condition, y3_comp)),
                  FMul(FSub(one, condition), FSub(a2, a0))),
             FMul(FSub(one, condition), FSub(b2, b0)))

\* conditional_ec_add_gate: rows x1 y1 / x2 y2 / condition / x3 y3
conditional_ec_add_gate(m) ==
    LET a0 == query_advice(m, "a", 0)
        b0 == query_advice(m, "b", 0)
        a1 == query_advice(m, "a", 1)
        b1 == query_advice(m, "b", 1)
        condition == query_advice(m, "a", 2)
        a2 == query_advice(m, "a", 3)
        b2 == query_advice(m, "b", 3)
        dxxyy == FMul(FMul(FMul(FMul(constant_d, a0), a1), b0), b1)
        divider_1 == FAdd(one, dxxyy)
        divider_2 == FSub(one, dxxyy)
        dividend_1 == FAdd(FMul(a0, b1), FMul(b0, a1))
        dividend_2 == FSub(FMul(b0, b1), FMul(FMul(constant_a, a0), a1))
        x3_comp == FSub(FMul(a2, divider_1), dividend_1)
        y3_comp == FSub(FMul(b2, divider_2), dividend_2)
    IN  FAdd(FAdd(FAdd(FMul(condition, x3_comp),
                       FMul(condition, y3_comp)),
                  FMul(FSub(one, condition), FSub(a2, a0))),
             FMul(FSub(one, condition), FSub(b2, b0)))

\* mutant: the x-equation takes x1*y1 once instead of twice
ec_double_gate_single(m) ==
    LET a0 == query_advice(m, "a", 0)
        b0 == query_advice(m, "b", 0)
        a1 == query_advice(m, "a", 1)
        b1 == query_advice(m, "b", 1)
        dxxyy == FMul(FMul(constant_d, square(a0)), square(b0))
        x3_equation == FSub(FMul(a0, b0), FMul(a1, FAdd(one, dxxyy)))
        y3_equation == FSub(FSub(square(b0), FMul(constant_a, square(a0))),
                            FMul(b1, FSub(one, dxxyy)))
    IN  FAdd(x3_equation, y3_equation)

\* ec_double_gate: rows x1 y1 / x3 y3
ec_double_gate(m) ==
    LET a0 == query_advice(m, "a", 0)
        b0 == query_advice(m, "b", 0)
        a1 == query_advice(m, "a", 1)
        b1 == query_advice(m, "b", 1)
        dxxyy == FMul(FMul(constant_d, square(a0)), square(b0))
        x3_equation == FSub(FAdd(FMul(a0, b0), FMul(b0, a0)),
                            FMul(a1, FAdd(one, dxxyy)))
        y3_equation == FSub(FSub(square(b0), FMul(constant_a, square(a0))),
                            FMul(b1, FSub(one, dxxyy)))
    IN  FAdd(x3_equation, y3_equation)

\* mutant: the d-term enters with the wrong sign
on_curve_gate_sign(m) ==
    LET a0 == query_advice(m, "a", 0)
        b0 == query_advice(m, "b", 0)
    IN  FAdd(FSub(FAdd(FMul(constant_a, square(a0)), square(b0)), from(1)),
             FMul(FMul(constant_d, square(a0)), square(b0)))

\* on_curve_gate: row x y
on_curve_gate(m) ==
    LET a0 == query_advice(m, "a", 0)
        b0 == query_advice(m, "b", 0)
    IN  FSub(FSub(FAdd(FMul(constant_a, square(a0)), square(b0)), from(1)),
             FMul(FMul(constant_d, square(a0)), square(b0)))

\* mutant: the fourth bit is weighted 4 instead of 8
partial_bit_decom_gate_weight(m) ==
    LET two == from(2)
        four == from(4)
        sixteen == from(16)
        a0 == query_advice(m, "a", 0)
        b0 == query_advice(m, "b", 0)
        a1 == query_advice(m, "a", 1)
        b1 == query_advice(m, "b", 1)
        a2 == query_advice(m, "a", 2)
        b2 == query_advice(m, "b", 2)
        sum == FSub(FAdd(FAdd(FAdd(FAdd(a0, FMul(two, b0)), FMul(four, a1)),
                              FMul(four, b1)), FMul(sixteen, a2)), b2)
    IN  FAdd(FAdd(FAdd(FAdd(sum, FMul(a0, FSub(one, a0))),
                       FMul(b0, FSub(one, b0))),
                  FMul(a1, FSub(one, a1))),
             FMul(b1, FSub(one, b1)))

\* partial_bit_decom_gate: rows x1 y1 / x2 y2 / x3 y3
partial_bit_decom_gate(m) ==
    LET two == from(2)
        four == from(4)
        eight == from(8)
        sixteen == from(16)
        a0 == query_advice(m, "a", 0)
        b0 == query_advice(m, "b", 0)
        a1 == query_advice(m, "a", 1)
        b1 == query_advice(m, "b", 1)
        a2 == query_advice(m, "a", 2)
        b2 == query_advice(m, "b", 2)
        sum == FSub(FAdd(FAdd(FAdd(FAdd(a0, FMul(two, b0)), FMul(four, a1)),
                              FMul(eight, b1)), FMul(sixteen, a2)), b2)
    IN  FAdd(FAdd(FAdd(FAdd(sum, FMul(a0, FSub(one, a0))),
                       FMul(b0, FSub(one, b0))),
                  FMul(a1, FSub(one, a1))),
             FMul(b1, FSub(one, b1)))

\* mutant: the result cell is read from the current row instead of the next
add_gate_cur(m) ==
    LET a0 == query_advice(m, "a", 0)
        b0 == query_advice(m, "b", 0)
    IN  FSub(FAdd(a0, b0), a0)

\* add_gate: rows x y / x+y
add_gate(m) ==
    LET a0 == query_advice(m, "a", 0)
        b0 == query_advice(m, "b", 0)
        a1 == query_advice(m, "a", 1)
    IN  FSub(FAdd(a0, b0), a1)

\* mul_gate: rows x y / x*y
mul_gate(m) ==
    LET a0 == query_advice(m, "a", 0)
        b0 == query_advice(m, "b", 0)
        a1 == query_advice(m, "a", 1)
    IN  FSub(FMul(a0, b0), a1)

----------------------------------------------------------------------------
(* Gate library as a state machine: an arbitrary assignment of the cells   *)
(* a gate queries is chosen, then the gate expression is evaluated on it.  *)

NotEvaluated == -1

\* the gate templates of ECConfig
GateNames == {"add", "mul", "partial_bit_decom", "on_curve", "ec_double", "conditional_ec_add"}

\* a window of four rows with every cell zero
ZeroWindow == [a |-> <<0, 0, 0, 0>>, b |-> <<0, 0, 0, 0>>]

\* points satisfying the curve equation
OnCurve(x, y) ==
    FAdd(FMul(constant_a, square(x)), square(y))
        = FAdd(one, FMul(FMul(constant_d, square(x)), square(y)))

CurvePoints == {pt \in Fp \X Fp : OnCurve(pt[1], pt[2])}

\* off-curve points offered to the gates next to the curve points
OffCurveInputs == {<<1, 1>>, <<2, 0>>, <<0, 0>>}

PointInputs == CurvePoints \cup OffCurveInputs

\* bit candidates offered to the bit-decomposition gate: the two bits and two non-bits
BitCandidates == {0, 1, 2, FieldModulus - 1}

\* condition values offered to the conditional addition gate
ConditionInputs == {0, 1, 2}

Window(x1, y1, x2, y2, x3, y3, x4, y4) ==
    [a |-> <<x1, x2, x3, x4>>, b |-> <<y1, y2, y3, y4>>]

GateInputs(g) ==
    CASE g = "add" ->
            {Window(x, y, r, 0, 0, 0, 0, 0) : x \in Fp, y \in Fp, r \in Fp}
      [] g = "mul" ->
            {Window(x, y, r, 0, 0, 0, 0, 0) : x \in Fp, y \in Fp, r \in Fp}
      [] g = "partial_bit_decom" ->
            {Window(bs[1], bs[2], bs[3], bs[4], acc[1], acc[2], 0, 0) :
                bs \in BitCandidates \X BitCandidates \X BitCandidates \X BitCandidates,
                acc \in Fp \X Fp}
      [] g = "on_curve" ->
            {Window(x, y, 0, 0, 0, 0, 0, 0) : x \in Fp, y \in Fp}
      [] g = "ec_double" ->
            {Window(p1[1], p1[2], p3[1], p3[2], 0, 0, 0, 0) :
                p1 \in Fp \X Fp, p3 \in Fp \X Fp}
      [] g = "conditional_ec_add" ->
            {Window(p1[1], p1[2], p2[1], p2[2], c, 0, p3[1], p3[2]) :
                p1 \in PointInputs, p2 \in PointInputs,
                c \in ConditionInputs, p3 \in Fp \X Fp}

\* the variables of the gate library while another component is exercised
GateIdle == gate = "none" /\ meta = ZeroWindow /\ poly = NotEvaluated

\* the variables of the bit utilities while another component is exercised
UtilIdle == arg = 0 /\ ret = <<>>

\* the witness table before any assignment
EmptyRegion == [advice |-> <<>>, selectors |-> {}, copies |-> {}, rewritten |-> {}]

\* the neutral element of the curve group
Identity == <<0, 1>>

NoOperation == [op |-> "none", index |-> 0, point |-> Identity, scalar |-> 0, result |-> Identity]

\* the variables of the chips while another component is exercised
ChipIdle ==
    /\ region = EmptyRegion /\ offset = 0
    /\ held = [cells |-> {}, points |-> {}] /\ last = NoOperation

InitGate ==
    /\ gate \in GateNames
    /\ meta \in GateInputs(gate)
    /\ poly = NotEvaluated
    /\ UtilIdle
    /\ ChipIdle

EvalAddGate ==
    /\ gate = "add" /\ poly = NotEvaluated
    /\ poly' = add_gate(meta)
    /\ UNCHANGED <<gate, meta, arg, ret, region, offset, held, last>>

EvalMulGate ==
    /\ gate = "mul" /\ poly = NotEvaluated
    /\ poly' = mul_gate(meta)
    /\ UNCHANGED <<gate, meta, arg, ret, region, offset, held, last>>

EvalPartialBitDecomGate ==
    /\ gate = "partial_bit_decom" /\ poly = NotEvaluated
    /\ poly' = partial_bit_decom_gate(meta)
    /\ UNCHANGED <<gate, meta, arg, ret, region, offset, held, last>>

EvalOnCurveGate ==
    /\ gate = "on_curve" /\ poly = NotEvaluated
    /\ poly' = on_curve_gate(meta)
    /\ UNCHANGED <<gate, meta, arg, ret, region, offset, held, last>>

EvalEcDoubleGate ==
    /\ gate = "ec_double" /\ poly = NotEvaluated
    /\ poly' = ec_double_gate(meta)
    /\ UNCHANGED <<gate, meta, arg, ret, region, offset, held, last>>

EvalConditionalEcAddGate ==
    /\ gate = "conditional_ec_add" /\ poly = NotEvaluated
    /\ poly' = conditional_ec_add_gate(meta)
    /\ UNCHANGED <<gate, meta, arg, ret, region, offset, held, last>>

NextGate ==
    \/ EvalAddGate
    \/ EvalMulGate
    \/ EvalPartialBitDecomGate
    \/ EvalOnCurveGate
    \/ EvalEcDoubleGate
    \/ EvalConditionalEcAddGate

SpecGate == InitGate /\ [][NextGate]_vars

\* the gate is active on the row and its polynomial vanishes
Vanishes(g) == gate = g /\ poly = 0

\* the gate has been evaluated on the row
Evaluated(g) == gate = g /\ poly # NotEvaluated

----------------------------------------------------------------------------
(* Properties of the gate library.                                         *)

IsBit(v) == v \in {0, 1}

\* C1: on every row where partial_bit_decom_gate is active and vanishes, each of
\* the four bit cells x1, y1, x2, y2 is exactly 0 or 1, whatever x3 and y3 are.
C1_BitsAreBoolean ==
    Vanishes("partial_bit_decom") =>
        /\ IsBit(query_advice(meta, "a", 0))
        /\ IsBit(query_advice(meta, "b", 0))
        /\ IsBit(query_advice(meta, "a", 1))
        /\ IsBit(query_advice(meta, "b", 1))

\* C2: with condition = 0, every assignment on which conditional_ec_add_gate
\* vanishes has x3 = x1 and y3 = y1.
C2_ConditionZeroPassesThrough ==
    (Vanishes("conditional_ec_add") /\ query_advice(meta, "a", 2) = 0) =>
        /\ query_advice(meta, "a", 3) = query_advice(meta, "a", 0)
        /\ query_advice(meta, "b", 3) = query_advice(meta, "b", 0)

\* the two coordinate equations of the twisted-Edwards addition law
AdditionLaw(x1, y1, x2, y2, x3, y3) ==
    LET t == FMul(FMul(FMul(FMul(constant_d, x1), x2), y1), y2)
    IN  /\ FMul(x3, FAdd(one, t)) = FAdd(FMul(x1, y2), FMul(y1, x2))
        /\ FMul(y3, FSub(one, t)) = FSub(FMul(y1, y2), FMul(constant_a, FMul(x1, x2)))

\* C3: with condition = 1, every assignment on which conditional_ec_add_gate
\* vanishes satisfies both coordinate equations of the addition law.
C3_ConditionOneIsAdditionLaw ==
    (Vanishes("conditional_ec_add") /\ query_advice(meta, "a", 2) = 1) =>
        AdditionLaw(query_advice(meta, "a", 0), query_advice(meta, "b", 0),
                    query_advice(meta, "a", 1), query_advice(meta, "b", 1),
                    query_advice(meta, "a", 3), query_advice(meta, "b", 3))

\* C4: every assignment on which ec_double_gate vanishes satisfies both
\* doubling equations, i.e. the addition law with both summands (x1, y1).
C4_DoubleIsDoublingLaw ==
    Vanishes("ec_double") =>
        AdditionLaw(query_advice(meta, "a", 0), query_advice(meta, "b", 0),
                    query_advice(meta, "a", 0), query_advice(meta, "b", 0),
                    query_advice(meta, "a", 1), query_advice(meta, "b", 1))

\* C7: on a row where on_curve_gate is active, the polynomial vanishes if and
\* only if (x, y) satisfies a*x^2 + y^2 = 1 + d*x^2*y^2.
C7_OnCurveGateIffCurveEquation ==
    Evaluated("on_curve") =>
        (poly = 0 <=> OnCurve(query_advice(meta, "a", 0), query_advice(meta, "b", 0)))

\* a point with both coordinates non-zero is accepted by on_curve_gate
C7_Witness ==
    /\ Vanishes("on_curve")
    /\ query_advice(meta, "a", 0) # 0
    /\ query_advice(meta, "b", 0) # 0

\* C8: add_gate vanishes exactly when the cell a of the next row is x + y,
\* and mul_gate exactly when it is x * y.
C8_AddMulGates ==
    /\ Evaluated("add") =>
        (poly = 0 <=> query_advice(meta, "a", 1)
                        = (query_advice(meta, "a", 0) + query_advice(meta, "b", 0)) % FieldModulus)
    /\ Evaluated("mul") =>
        (poly = 0 <=> query_advice(meta, "a", 1)
                        = (query_advice(meta, "a", 0) * query_advice(meta, "b", 0)) % FieldModulus)

\* a product that wraps around the modulus is accepted by mul_gate
C8_Witness ==
    /\ Vanishes("mul")
    /\ query_advice(meta, "a", 0) * query_advice(meta, "b", 0) >= FieldModulus

----------------------------------------------------------------------------
(* Bit utilities (util.rs).                                                *)

\* number of bytes of the unsigned integer type; u128 has 16, the model keeps
\* the byte-wise algorithm and shortens the integer
U128Bytes == 2

RECURSIVE Pow(_, _)
Pow(b, n) == IF n = 0 THEN 1 ELSE b * Pow(b, n - 1)

\* u128::MAX of the shortened integer
U128Max == Pow(256, U128Bytes) - 1

\* a.to_le_bytes(): the bytes of the integer, least significant first
to_le_bytes(a) == [i \in 1 .. U128Bytes |-> (a \div Pow(256, i - 1)) % 256]

\* mutant: the shift of the loop is dropped, every pushed bit is bit 0
RECURSIVE byte_to_le_bits_noshift(_, _, _)
byte_to_le_bits_noshift(t, res, n) ==
    IF n = 0 THEN res
    ELSE byte_to_le_bits_noshift(t, Append(res, (t % 2) = 1), n - 1)

\* byte_to_le_bits: for _ in 0..8 { res.push(t & 1 == 1); t >>= 1 }
RECURSIVE byte_to_le_bits(_, _, _)
byte_to_le_bits(t, res, n) ==
    IF n = 0 THEN res
    ELSE byte_to_le_bits(t \div 2, Append(res, (t % 2) = 1), n - 1)

\* `x as u64` of a bool
as_u64(x) == IF x THEN 1 ELSE 0

RECURSIVE flat_map(_, _)
flat_map(bytes, res) ==
    IF bytes = <<>> THEN res
    ELSE LET bits == byte_to_le_bits(Head(bytes), <<>>, 8)
         IN  flat_map(Tail(bytes), res \o [i \in 1 .. Len(bits) |-> as_u64(bits[i])])

\* decompose_u128: the bytes of a, each expanded to its bits
decompose_u128(a) == flat_map(to_le_bytes(a), <<>>)

\* number of values sampled at each end of the integer range
SampleWidth == 40

\* the integers handed to decompose_u128: both ends of the range and every power of two
U128Inputs ==
    (0 .. SampleWidth) \cup ((U128Max - SampleWidth) .. U128Max)
        \cup {Pow(2, i) : i \in 0 .. (8 * U128Bytes - 1)}

InitUtil ==
    /\ arg \in U128Inputs
    /\ ret = <<>>
    /\ GateIdle
    /\ ChipIdle

CallDecomposeU128 ==
    /\ ret = <<>>
    /\ ret' = decompose_u128(arg)
    /\ UNCHANGED <<gate, meta, poly, arg, region, offset, held, last>>

NextUtil == CallDecomposeU128

SpecUtil == InitUtil /\ [][NextUtil]_vars

RECURSIVE WeightedSum(_, _)
WeightedSum(bits, i) ==
    IF i > Len(bits) THEN 0
    ELSE bits[i] * Pow(2, i - 1) + WeightedSum(bits, i + 1)

\* C6: decompose_u128(v) returns one value per bit of the integer type, each 0
\* or 1, least significant first, and the sum of bit_i * 2^i is v.
C6_DecomposeU128RoundTrip ==
    ret # <<>> =>
        /\ Len(ret) = 8 * U128Bytes
        /\ \A i \in 1 .. Len(ret) : ret[i] \in {0, 1}
        /\ WeightedSum(ret, 1) = arg

\* the largest integer has been decomposed
C6_Witness == ret # <<>> /\ arg = U128Max

----------------------------------------------------------------------------
(* Witness table: the operations of the region the chips call.             *)

\* region.assign_advice(column, row, value)
assign_advice(r, column, row, value) ==
    [r EXCEPT !.advice = (<<column, row>> :> value) @@ r.advice,
              !.rewritten = IF <<column, row>> \in DOMAIN r.advice
                            THEN @ \cup {<<column, row>>} ELSE @]

\* selector.enable(region, row)
enable(r, g, row) == [r EXCEPT !.selectors = @ \cup {<<g, row>>}]

\* region.constrain_equal(cell, cell)
constrain_equal(r, c1, c2) == [r EXCEPT !.copies = @ \cup {<<c1, c2>>}]

\* the value of a cell; a cell never assigned reads as zero
value(r, cell) == IF cell \in DOMAIN r.advice THEN r.advice[cell] ELSE 0

\* the cells a gate enabled on a row queries
WindowAt(r, row) ==
    [a |-> [i \in 1 .. 4 |-> value(r, <<"a", row + i - 1>>)],
     b |-> [i \in 1 .. 4 |-> value(r, <<"b", row + i - 1>>)]]

GateValue(g, m) ==
    CASE g = "add" -> add_gate(m)
      [] g = "mul" -> mul_gate(m)
      [] g = "partial_bit_decom" -> partial_bit_decom_gate(m)
      [] g = "on_curve" -> on_curve_gate(m)
      [] g = "ec_double" -> ec_double_gate(m)
      [] g = "conditional_ec_add" -> conditional_ec_add_gate(m)

\* MockProver::verify: every enabled gate vanishes and every copy constraint holds
Satisfied(r) ==
    /\ \A s \in r.selectors : GateValue(s[1], WindowAt(r, s[2])) = 0
    /\ \A c \in r.copies : value(r, c[1]) = value(r, c[2])

----------------------------------------------------------------------------
(* Field chip.  Every operation takes the table and the cursor and returns *)
(* both together with the cells it hands back.                             *)

Chip(r, o, out) == [region |-> r, offset |-> o, out |-> out]

load_private_field(k, f) ==
    Chip(assign_advice(k.region, "a", k.offset, f), k.offset + 1, <<"a", k.offset>>)

\* mutant: the cursor is advanced past the operand row only
add_short(k, x, y) ==
    LET o == k.offset
        r1 == assign_advice(k.region, "a", o, x)
        r2 == assign_advice(r1, "b", o, y)
        r3 == assign_advice(r2, "a", o + 1, FAdd(x, y))
    IN  Chip(enable(r3, "add", o), o + 1, <<"a", o + 1>>)

add(k, x, y) ==
    LET o == k.offset
        r1 == assign_advice(k.region, "a", o, x)
        r2 == assign_advice(r1, "b", o, y)
        r3 == assign_advice(r2, "a", o + 1, FAdd(x, y))
    IN  Chip(enable(r3, "add", o), o + 2, <<"a", o + 1>>)

mul(k, x, y) ==
    LET o == k.offset
        r1 == assign_advice(k.region, "a", o, x)
        r2 == assign_advice(r1, "b", o, y)
        r3 == assign_advice(r2, "a", o + 1, FMul(x, y))
    IN  Chip(enable(r3, "mul", o), o + 2, <<"a", o + 1>>)

partial_bit_decomp(k, inputs) ==
    LET o == k.offset
        r1 == assign_advice(k.region, "a", o, inputs[1])
        r2 == assign_advice(r1, "b", o, inputs[2])
        r3 == assign_advice(r2, "a", o + 1, inputs[3])
        r4 == assign_advice(r3, "b", o + 1, inputs[4])
        r5 == assign_advice(r4, "a", o + 2, inputs[5])
        r6 == assign_advice(r5, "b", o + 2, inputs[6])
    IN  Chip(enable(r6, "partial_bit_decom", o), o + 3,
             <<<<"a", o>>, <<"b", o>>, <<"a", o + 1>>, <<"b", o + 1>>,
               <<"a", o + 2>>, <<"b", o + 2>>>>)

\* the windowed decomposition loop: one partial_bit_decomp per group of four
\* bits, most significant group first, the accumulator copied from step to step
RECURSIVE decompose_loop(_, _, _, _, _, _)
decompose_loop(k, bits, j, acc, acc_cell, cells) ==
    IF j = 0 THEN Chip(k.region, k.offset, cells)
    ELSE LET b1 == bits[4 * j - 3]
             b2 == bits[4 * j - 2]
             b3 == bits[4 * j - 1]
             b4 == bits[4 * j]
             next == FAdd(FAdd(FAdd(FAdd(from(b1), FMul(from(2), from(b2))),
                                    FMul(from(4), from(b3))),
                               FMul(from(8), from(b4))),
                          FMul(from(16), acc))
             step == partial_bit_decomp(k, <<from(b1), from(b2), from(b3), from(b4), acc, next>>)
             linked == IF acc_cell = <<>> THEN step.region
                       ELSE constrain_equal(step.region, acc_cell, step.out[5])
         IN  IF step.offset > k.offset
             THEN decompose_loop(Chip(linked, step.offset, <<>>), bits, j - 1, next, step.out[6],
                                 <<step.out[1], step.out[2], step.out[3], step.out[4]>> \o cells)
             ELSE Chip(k.region, k.offset, cells)

chip_decompose_u128(k, a) ==
    LET bits == decompose_u128(a)
    IN  decompose_loop(k, bits, Len(bits) \div 4, 0, <<>>, <<>>)

pad(k) ==
    LET o == k.offset
        r1 == assign_advice(k.region, "a", o, 0)
        r2 == assign_advice(r1, "b", o, 0)
        r3 == assign_advice(r2, "a", o + 1, 0)
        r4 == assign_advice(r3, "b", o + 1, 0)
    IN  Chip(r4, o + 2, <<>>)

----------------------------------------------------------------------------
(* Native curve arithmetic the chips compute witnesses with.               *)

\* order of the scalar field Fr; a small prime standing in for the 253-bit one
ScalarModulus == 5

Fr == 0 .. (ScalarModulus - 1)

\* number of bytes of a field element's canonical encoding; 32 in the program
ReprBytes == 1

\* mutant: the element is first reduced into the base field
to_repr_reduced(e) ==
    [i \in 1 .. ReprBytes |-> ((e % FieldModulus) \div Pow(256, i - 1)) % 256]

\* e.to_repr(): the canonical integer of the element, least significant byte first
to_repr(e) == [i \in 1 .. ReprBytes |-> (e \div Pow(256, i - 1)) % 256]

RECURSIVE extend_from_slice(_, _)
extend_from_slice(repr, res) ==
    IF repr = <<>> THEN res
    ELSE extend_from_slice(Tail(repr), res \o byte_to_le_bits(Head(repr), <<>>, 8))

\* to_le_bits: the bits of every byte of the encoding, in order
to_le_bits(e) == extend_from_slice(to_repr(e), <<>>)

\* field inversion; zero is never inverted for the points and scalars of SpecMul,
\* the value 0 only keeps the operator total
invert(x) == IF x = 0 THEN 0 ELSE CHOOSE y \in Fp : FMul(x, y) = 1

\* affine addition on the twisted Edwards curve
point_add(p1, p2) ==
    LET t == FMul(FMul(FMul(FMul(constant_d, p1[1]), p2[1]), p1[2]), p2[2])
    IN  <<FMul(FAdd(FMul(p1[1], p2[2]), FMul(p1[2], p2[1])), invert(FAdd(one, t))),
          FMul(FSub(FMul(p1[2], p2[2]), FMul(constant_a, FMul(p1[1], p2[1]))),
               invert(FSub(one, t)))>>

----------------------------------------------------------------------------
(* Elliptic-curve chip.                                                    *)

\* an assigned point: the cells of its two coordinates
AssignedECPoint(row) == [x |-> <<"a", row>>, y |-> <<"b", row>>]

witness(r, p) == <<value(r, p.x), value(r, p.y)>>

load_private_point_unchecked(k, p) ==
    LET r1 == assign_advice(k.region, "a", k.offset, p[1])
        r2 == assign_advice(r1, "b", k.offset, p[2])
    IN  Chip(r2, k.offset + 1, AssignedECPoint(k.offset))

enforce_on_curve(k, p) ==
    Chip(enable(k.region, "on_curve", p.x[2]), k.offset, <<>>)

load_private_point(k, p) ==
    LET loaded == load_private_point_unchecked(k, p)
        checked == enforce_on_curve(loaded, loaded.out)
    IN  Chip(checked.region, checked.offset, loaded.out)

\* copy an assigned point into the row at the cursor
copy_point(k, p) ==
    LET loaded == load_private_point_unchecked(k, witness(k.region, p))
        r1 == constrain_equal(loaded.region, p.x, loaded.out.x)
        r2 == constrain_equal(r1, p.y, loaded.out.y)
    IN  Chip(r2, loaded.offset, loaded.out)

conditional_point_add(k, p1, p2, b) ==
    LET o == k.offset
        k1 == copy_point(k, p1)
        k2 == copy_point(k1, p2)
        bit == value(k.region, b)
        k3 == load_private_field(k2, bit)
        r3 == constrain_equal(k3.region, b, k3.out)
        p3 == IF bit = one
              THEN point_add(witness(k.region, p1), witness(k.region, p2))
              ELSE witness(k.region, p1)
        k4 == load_private_point_unchecked(Chip(r3, k3.offset, <<>>), p3)
    IN  Chip(enable(k4.region, "conditional_ec_add", o), k4.offset, k4.out)

point_double(k, p1) ==
    LET o == k.offset
        k1 == copy_point(k, p1)
        p3 == point_add(witness(k.region, p1), witness(k.region, p1))
        k2 == load_private_point_unchecked(k1, p3)
    IN  Chip(enable(k2.region, "ec_double", o), k2.offset, k2.out)

decompose_scalar(k, s) ==
    LET bits == [i \in 1 .. 8 * ReprBytes |-> as_u64(to_le_bits(s)[i])]
    IN  decompose_loop(k, bits, Len(bits) \div 4, 0, <<>>, <<>>)

\* double-and-add over the bit cells, most significant first
RECURSIVE double_and_add(_, _, _, _, _)
double_and_add(k, base, bits, i, acc) ==
    IF i = 0 THEN Chip(k.region, k.offset, acc)
    ELSE LET doubled == point_double(k, acc)
             added == conditional_point_add(doubled, doubled.out, base, bits[i])
         IN  IF added.offset > k.offset
             THEN double_and_add(added, base, bits, i - 1, added.out)
             ELSE Chip(k.region, k.offset, acc)

point_mul(k, p, s) ==
    LET bits == decompose_scalar(k, s)
        base == load_private_point_unchecked(bits, p)
        acc == load_private_point_unchecked(base, Identity)
    IN  double_and_add(acc, base.out, bits.out, Len(bits.out), acc.out)

----------------------------------------------------------------------------
(* A circuit's synthesis: chip operations called one after another, all    *)
(* sharing the caller's row cursor.                                        *)

\* number of chip operations in one synthesis
MaxOps == 3

\* values loaded as private field elements
FieldInputs == {0, 1}

\* operand pairs of add and mul; the sum and the product wrap around the modulus
ArithInputs == {<<FieldModulus - 1, 2>>}

\* the six inputs of partial_bit_decomp: an honest step and one with a non-bit
BitDecompInputs ==
    {<<1, 0, 0, 1, 3, from(16 * 3 + 9)>>, <<2, 0, 0, 1, 3, from(16 * 3 + 10)>>}

\* points loaded by the caller: one on the curve, one off it
ChipPoints == {<<2, 4>>, <<1, 1>>}

\* scalars handed to decompose_scalar and point_mul by the caller
ChipScalars == {ScalarModulus - 1}

\* integers handed to the chip's decompose_u128 by the caller
ChipU128Inputs == {U128Max}

Here == [region |-> region, offset |-> offset]

Ready == last.index < MaxOps /\ last.op # "pad"

Done(name, res, pt, sc, cells, points) ==
    /\ region' = res.region
    /\ offset' = res.offset
    /\ held' = [cells |-> held.cells \cup cells, points |-> held.points \cup points]
    /\ last' = [op |-> name, index |-> last.index + 1, point |-> pt, scalar |-> sc,
                result |-> IF points = {} THEN Identity
                           ELSE witness(res.region, res.out)]
    /\ UNCHANGED <<gate, meta, poly, arg, ret>>

LoadPrivateField ==
    /\ Ready
    /\ \E f \in FieldInputs :
        LET res == load_private_field(Here, f)
        IN  Done("load_private_field", res, Identity, 0, {res.out}, {})

Add ==
    /\ Ready
    /\ \E xy \in ArithInputs :
        LET res == add(Here, xy[1], xy[2])
        IN  Done("add", res, Identity, 0, {res.out}, {})

Mul ==
    /\ Ready
    /\ \E xy \in ArithInputs :
        LET res == mul(Here, xy[1], xy[2])
        IN  Done("mul", res, Identity, 0, {res.out}, {})

PartialBitDecomp ==
    /\ Ready
    /\ \E inputs \in BitDecompInputs :
        Done("partial_bit_decomp", partial_bit_decomp(Here, inputs), Identity, 0, {}, {})

DecomposeU128 ==
    /\ Ready
    /\ \E a \in ChipU128Inputs :
        Done("decompose_u128", chip_decompose_u128(Here, a), Identity, 0, {}, {})

LoadPrivatePointUnchecked ==
    /\ Ready
    /\ \E p \in ChipPoints :
        LET res == load_private_point_unchecked(Here, p)
        IN  Done("load_private_point_unchecked", res, p, 0, {}, {res.out})

LoadPrivatePoint ==
    /\ Ready
    /\ \E p \in ChipPoints :
        LET res == load_private_point(Here, p)
        IN  Done("load_private_point", res, p, 0, {}, {res.out})

EnforceOnCurve ==
    /\ Ready
    /\ \E p \in held.points :
        Done("enforce_on_curve", enforce_on_curve(Here, p), witness(region, p), 0, {}, {})

ConditionalPointAdd ==
    /\ Ready
    /\ \E p1 \in held.points, p2 \in held.points, b \in held.cells :
        LET res == conditional_point_add(Here, p1, p2, b)
        IN  Done("conditional_point_add", res, witness(region, p1), 0, {}, {res.out})

PointDouble ==
    /\ Ready
    /\ \E p1 \in held.points :
        LET res == point_double(Here, p1)
        IN  Done("point_double", res, witness(region, p1), 0, {}, {res.out})

DecomposeScalar ==
    /\ Ready
    /\ \E s \in ChipScalars :
        Done("decompose_scalar", decompose_scalar(Here, s), Identity, s, {}, {})

PointMul ==
    /\ Ready
    /\ \E p \in {<<2, 4>>}, s \in ChipScalars :
        LET res == point_mul(Here, p, s)
        IN  Done("point_mul", res, p, s, {}, {res.out})

Pad ==
    /\ Ready
    /\ Done("pad", pad(Here), Identity, 0, {}, {})

Init == ChipIdle /\ GateIdle /\ UtilIdle

Next ==
    \/ LoadPrivateField
    \/ Add
    \/ Mul
    \/ PartialBitDecomp
    \/ DecomposeU128
    \/ LoadPrivatePointUnchecked
    \/ LoadPrivatePoint
    \/ EnforceOnCurve
    \/ ConditionalPointAdd
    \/ PointDouble
    \/ DecomposeScalar
    \/ PointMul
    \/ Pad

Spec == Init /\ [][Next]_vars

----------------------------------------------------------------------------
(* Scalar multiplication on its own: every curve point and every scalar.   *)

InitMul ==
    /\ region = EmptyRegion /\ offset = 0
    /\ held = [cells |-> {}, points |-> {}]
    /\ \E p \in CurvePoints, s \in Fr :
        last = [op |-> "given", index |-> 0, point |-> p, scalar |-> s, result |-> Identity]
    /\ GateIdle /\ UtilIdle

PointMulGiven ==
    /\ last.op = "given"
    /\ LET res == point_mul(Here, last.point, last.scalar)
       IN  Done("point_mul", res, last.point, last.scalar, {}, {res.out})

NextMul == PointMulGiven

SpecMul == InitMul /\ [][NextMul]_vars

\* s * P of the group: P added to the neutral element s times
RECURSIVE ScalarMultiple(_, _)
ScalarMultiple(s, p) ==
    IF s = 0 THEN Identity ELSE point_add(ScalarMultiple(s - 1, p), p)

\* C5: point_mul(P, s) returns s * P for every curve point P and every scalar
\* s, and the rows it lays out satisfy the gates it enables.
C5_PointMulIsScalarMultiple ==
    last.op = "point_mul" =>
        /\ last.result = ScalarMultiple(last.scalar, last.point)
        /\ Satisfied(region)

\* the largest scalar has multiplied a point of the curve other than the neutral one
C5_Witness ==
    /\ last.op = "point_mul"
    /\ last.scalar = ScalarModulus - 1
    /\ last.point # Identity
    /\ last.result # Identity

\* the cells assigned by the step from the current table to the next one
Assigned == (DOMAIN region'.advice \ DOMAIN region.advice) \cup region'.rewritten

\* C9: across any sequence of chip operations sharing one row offset, the
\* offset never decreases, it strictly increases with every operation that
\* assigns cells, no cell is assigned twice, and every row an operation writes
\* is at or beyond the offset the operation was given.
C9_OffsetDiscipline ==
    [][/\ offset' >= offset
       /\ Assigned # {} => offset' > offset
       /\ region'.rewritten = {}
       /\ \A c \in Assigned : c[2] >= offset]_vars

\* a conditional addition has been laid out below rows written by earlier operations
C9_Witness ==
    /\ last.op = "conditional_point_add"
    /\ offset >= 6
    /\ region.rewritten = {}

\* the gates enabled on a row
GatesOn(r, row) == {s \in r.selectors : s[2] = row}

\* C10: load_private_point_unchecked enables no gate on the point's row and
\* leaves a satisfied circuit satisfied even for a point off the curve;
\* load_private_point and enforce_on_curve enable on_curve_gate on the
\* point's row, so the circuit is unsatisfied for a point off the curve.
C10_UncheckedLoadCarriesNoGuarantee ==
    [][/\ last'.op = "load_private_point_unchecked" =>
            /\ GatesOn(region', offset) = {}
            /\ Satisfied(region) => Satisfied(region')
       /\ last'.op = "load_private_point" =>
            /\ <<"on_curve", offset>> \in region'.selectors
            /\ ~OnCurve(last'.point[1], last'.point[2]) => ~Satisfied(region')
       /\ last'.op = "enforce_on_curve" =>
            (~OnCurve(last'.point[1], last'.point[2]) => ~Satisfied(region'))]_vars

\* enforce_on_curve was invoked on a point off the curve; the circuit is
\* unsatisfied, and on_curve_gate alone is what it fails
C10_Witness ==
    /\ last.op = "enforce_on_curve"
    /\ ~OnCurve(last.point[1], last.point[2])
    /\ ~Satisfied(region)
    /\ Satisfied([region EXCEPT !.selectors = {s \in @ : s[1] # "on_curve"}])

----------------------------------------------------------------------------
(* Further properties of the gate library.                                 *)

\* the window of the state with the result row of conditional_ec_add_gate replaced
WithResult(m, p3) ==
    Window(query_advice(m, "a", 0), query_advice(m, "b", 0),
           query_advice(m, "a", 1), query_advice(m, "b", 1),
           query_advice(m, "a", 2), 0, p3[1], p3[2])

\* C11: conditional_ec_add_gate does not constrain the condition cell to be
\* boolean: whatever the two points are, a condition outside {0,1} still
\* leaves a result (x3, y3) on which the gate polynomial vanishes.
C11_ConditionNotBoolean ==
    (gate = "conditional_ec_add" /\ ~IsBit(query_advice(meta, "a", 2))) =>
        \E p3 \in Fp \X Fp : conditional_ec_add_gate(WithResult(meta, p3)) = 0

\* the gate was evaluated with condition 2 on two curve points and vanished
C11_Witness ==
    /\ Vanishes("conditional_ec_add")
    /\ query_advice(meta, "a", 2) = 2
    /\ <<query_advice(meta, "a", 0), query_advice(meta, "b", 0)>> \in CurvePoints
    /\ <<query_advice(meta, "a", 1), query_advice(meta, "b", 1)>> \in CurvePoints

\* C12: with x1, y1, x2, y2 each 0 or 1 and any accumulator x3,
\* partial_bit_decom_gate vanishes if and only if
\* y3 = x1 + 2*y1 + 4*x2 + 8*y2 + 16*x3.
C12_BitDecompWeightedSum ==
    (/\ Evaluated("partial_bit_decom")
     /\ IsBit(query_advice(meta, "a", 0)) /\ IsBit(query_advice(meta, "b", 0))
     /\ IsBit(query_advice(meta, "a", 1)) /\ IsBit(query_advice(meta, "b", 1))) =>
        (poly = 0 <=>
            query_advice(meta, "b", 2) =
                (query_advice(meta, "a", 0) + 2 * query_advice(meta, "b", 0)
                    + 4 * query_advice(meta, "a", 1) + 8 * query_advice(meta, "b", 1)
                    + 16 * query_advice(meta, "a", 2)) % FieldModulus)

\* an honest step with all four bits set and a non-zero accumulator is accepted
C12_Witness ==
    /\ Vanishes("partial_bit_decom")
    /\ query_advice(meta, "a", 0) = 1 /\ query_advice(meta, "b", 0) = 1
    /\ query_advice(meta, "a", 1) = 1 /\ query_advice(meta, "b", 1) = 1
    /\ query_advice(meta, "a", 2) # 0

\* C15: ec_double_gate and conditional_ec_add_gate agree on doubling: (P, R)
\* satisfies ec_double_gate if and only if P1 = P2 = P, condition = 1 and
\* result R satisfies conditional_ec_add_gate.
C15_DoubleAgreesWithAdd ==
    Evaluated("ec_double") =>
        (poly = 0 <=>
            conditional_ec_add_gate(
                Window(query_advice(meta, "a", 0), query_advice(meta, "b", 0),
                       query_advice(meta, "a", 0), query_advice(meta, "b", 0),
                       1, 0,
                       query_advice(meta, "a", 1), query_advice(meta, "b", 1))) = 0)

\* ec_double_gate accepted the double of a curve point other than the neutral one
C15_Witness ==
    /\ Vanishes("ec_double")
    /\ <<query_advice(meta, "a", 0), query_advice(meta, "b", 0)>> \in CurvePoints
    /\ query_advice(meta, "a", 0) # 0
    /\ <<query_advice(meta, "a", 1), query_advice(meta, "b", 1)>>
         = point_add(<<query_advice(meta, "a", 0), query_advice(meta, "b", 0)>>,
                     <<query_advice(meta, "a", 0), query_advice(meta, "b", 0)>>)

----------------------------------------------------------------------------
(* to_le_bits on its own: the bits of a field element's encoding.          *)

\* the largest integer an encoding of ReprBytes bytes holds
ReprMax == Pow(256, ReprBytes) - 1

\* canonical integers of the elements handed to to_le_bits: both ends of the
\* range of the encoding and every power of two
ReprInputs ==
    (0 .. SampleWidth) \cup ((ReprMax - SampleWidth) .. ReprMax)
        \cup {Pow(2, i) : i \in 0 .. (8 * ReprBytes - 1)}

InitBits ==
    /\ arg \in ReprInputs
    /\ ret = <<>>
    /\ GateIdle
    /\ ChipIdle

CallToLeBits ==
    /\ ret = <<>>
    /\ ret' = to_le_bits(arg)
    /\ UNCHANGED <<gate, meta, poly, arg, region, offset, held, last>>

NextBits == CallToLeBits

SpecBits == InitBits /\ [][NextBits]_vars

----------------------------------------------------------------------------
(* field_decompose_u128 on its own.  The encoding is as wide as two of the *)
(* unsigned integers it is split into.                                     *)

\* number of bits of the canonical integers handed to field_decompose_u128
ElementBits == 29

\* e.to_repr() for field_decompose_u128: 2 * U128Bytes bytes, least significant first
RECURSIVE repr_bytes(_, _)
repr_bytes(e, n) ==
    IF n = 0 THEN <<>> ELSE <<e % 256>> \o repr_bytes(e \div 256, n - 1)

\* u128::from_le_bytes
RECURSIVE from_le_bytes(_)
from_le_bytes(bytes) ==
    IF bytes = <<>> THEN 0 ELSE Head(bytes) + 256 * from_le_bytes(Tail(bytes))

\* mutant: the halves are returned as (low, high)
field_decompose_u128_swapped(e) ==
    LET repr == repr_bytes(e, 2 * U128Bytes)
        high == from_le_bytes(SubSeq(repr, U128Bytes + 1, 2 * U128Bytes))
        low == from_le_bytes(SubSeq(repr, 1, U128Bytes))
    IN  <<low, high>>

\* field_decompose_u128: high from repr[16..], low from repr[..16], returned (high, low)
field_decompose_u128(e) ==
    LET repr == repr_bytes(e, 2 * U128Bytes)
        high == from_le_bytes(SubSeq(repr, U128Bytes + 1, 2 * U128Bytes))
        low == from_le_bytes(SubSeq(repr, 1, U128Bytes))
    IN  <<high, low>>

\* canonical integers of the elements handed to field_decompose_u128: the bottom
\* and the top of the range, the values around the boundary of the two halves,
\* and every power of two
ElementInputs ==
    (0 .. SampleWidth)
        \cup ((U128Max - SampleWidth) .. (U128Max + SampleWidth))
        \cup ((Pow(2, ElementBits) - 1 - SampleWidth) .. (Pow(2, ElementBits) - 1))
        \cup {Pow(2, i) : i \in 0 .. (ElementBits - 1)}

InitSplit ==
    /\ arg \in ElementInputs
    /\ ret = <<>>
    /\ GateIdle
    /\ ChipIdle

CallFieldDecomposeU128 ==
    /\ ret = <<>>
    /\ ret' = field_decompose_u128(arg)
    /\ UNCHANGED <<gate, meta, poly, arg, region, offset, held, last>>

NextSplit == CallFieldDecomposeU128

SpecSplit == InitSplit /\ [][NextSplit]_vars

\* C14: field_decompose_u128(e) returns (high, low) in that order, low the
\* integer of the low half of the encoding's bytes and high the integer of the
\* high half, so high * 2^(bits of a half) + low is the integer value of the
\* encoding and both parts are below 2^(bits of a half).
C14_FieldDecomposeU128 ==
    ret # <<>> =>
        /\ Len(ret) = 2
        /\ ret[2] = arg % Pow(256, U128Bytes)
        /\ ret[1] = arg \div Pow(256, U128Bytes)
        /\ ret[1] * Pow(256, U128Bytes) + ret[2] = arg
        /\ ret[1] <= U128Max /\ ret[2] <= U128Max

\* an element with different non-zero halves was split
C14_Witness ==
    /\ ret # <<>>
    /\ ret[1] > 0 /\ ret[2] > 0
    /\ ret[1] # ret[2]

====
